---- MODULE Spec2Model ----
(***************************************************************************)
(* Model of the map poster shop: the Flask order flow of app.py            *)
(* (create, preview_image, purchase, stripe_webhook, success,              *)
(* generate_final, download over the file-per-order JSON store) and the    *)
(* rendering helpers of create_map_poster.py (geocode cache, fan-out/join  *)
(* fetch of the three layers, road bucketing).                             *)
(***************************************************************************)
EXTENDS Integers, Sequences, FiniteSets, TLC

(* ----------------------------- bounds ---------------------------------- *)
\* orders that /create may persist in one run (uuid4 values handed out)
MaxOrders == 2
\* seconds the wall clock covers (datetime.now() reads 0..MaxTime)
MaxTime == 1
\* event counters saturate here ("two or more")
MaxCount == 2
\* requests that render a poster or save an order, accepted in one run
MaxRequests == 3

\* request threads of the server (app.run is threaded; gunicorn -w 4)
Threads == {"t1", "t2"}
ThreadRank(t) == CASE t = "t1" -> 1 [] t = "t2" -> 2

(* --------------------------- program data ------------------------------ *)
\* theme files found in themes/ (names used by print_examples)
AVAILABLE_THEMES == {"noir", "ocean"}
\* theme values a form can carry: the available ones and an unknown one
FormThemes == AVAILABLE_THEMES \cup {"bogus"}
\* a theme dictionary is known by the name of the file it was read from, and
\* its colour under key k is <<name, k>>
ThemeColour(theme, k) == <<theme, k>>
\* load_theme: the theme file, or the embedded default when it is missing
load_theme(theme_name) ==
    IF theme_name \in AVAILABLE_THEMES THEN theme_name
    ELSE "embedded_default"

Cities == {"Paris"}
\* city.lower().replace(' ', '_')
CitySlug(city) == CASE city = "Paris" -> "paris"
Emails == {"none", "a@x.io"}
NoName == <<>>

\* f"{city_slug}_{theme}_{%Y%m%d_%H%M%S}.png"
PosterFilename(order, time) == <<CitySlug(order.city), order.theme, time>>
\* f"{invoice_id}.json"
InvoiceFilename(id) == <<id, ".json">>
\* f"preview_{id}_{theme}.png"
PreviewFilename(id, theme) == <<"preview", id, theme, ".png">>

VARIABLES
    workers,        \* requests the server handles at the same time
    stripeReady,    \* stripe_ready(): Stripe keys and price configured
    customer,       \* the email the customer of this run types into the form
    orderFiles,     \* ORDERS_DIR: session_id -> order document
    invoiceFiles,   \* INVOICES_DIR: invoice filename -> invoice document
    posterFiles,    \* POSTERS_DIR: final poster filename -> owner order
    previewFiles,   \* PREVIEWS_DIR: names of the preview images present
    THEME,          \* poster.THEME, the module global
    req,            \* per thread: the request it is handling
    now,            \* the latest datetime.now() read, in seconds
    uuids,          \* uuid4 values handed out so far
    checkout,       \* orders with a Stripe checkout session
    events,         \* orders with a signed checkout.session.completed event
    deliveries,     \* per order: webhook deliveries answered 200 success
    whRenders,      \* per order: final posters rendered by the webhook
    whEmails,       \* per order: emails sent by the webhook
    emails,         \* per order: emails sent by any handler
    served,         \* rendering or saving requests accepted so far
    geocode_cache,  \* _geocode_cache: cache key -> (lat, lon, address)
    geoCalls,       \* requests sent to the geocoding service
    lastCall,       \* the latest get_coordinates call and what it returned
    geoNow,         \* time.time() as last read by get_coordinates, in seconds
    last_geocode_time,  \* _last_geocode_time
    sentAt,         \* when the latest request went to the geocoding service
    cp,             \* create_poster: place of the calling thread
    futures,        \* create_poster: state of the three submitted fetches
    fetched,        \* create_poster: what each finished fetch produced
    layers,         \* create_poster: the locals G, water and parks
    drawn,          \* create_poster: the layers plotted, in plotting order
    outputFile,     \* create_poster: whether output_file has been written
    finishOrder,    \* create_poster: the fetches in the order they finished
    edges,          \* the 'highway' data of the edges of a graph G
    edgeStyle,      \* what get_edge_colors_and_widths_by_type returned for G
    argv,           \* command line: the options given to create_map_poster.py
    cliPc,          \* command line: place of the script
    cliFigsize,     \* command line: the figsize argument create_poster received
    cliOutput,      \* command line: whether the poster file was written
    form,           \* /create: the form fields the browser of this run submits
    lookup,         \* /create: how the latest geocoder lookup of create ended
    page,           \* /create: the latest answer that was not a redirect
    downloaded      \* /download: the latest request and its answer

webVars == <<workers, stripeReady, customer, orderFiles, invoiceFiles, posterFiles,
             previewFiles,
             THEME, req, now, uuids, checkout, events, deliveries,
             whRenders, whEmails, emails, served>>

geoVars == <<geocode_cache, geoCalls, lastCall, geoNow, last_geocode_time, sentAt>>
posterVars == <<cp, futures, fetched, layers, drawn, outputFile, finishOrder>>
edgeVars == <<edges, edgeStyle>>

\* the command-line tool
cliVars == <<argv, cliPc, cliFigsize, cliOutput>>
\* the form of /create and the answers to it
formVars == <<form, lookup, page>>
\* the answers of /download
downloadVars == <<downloaded>>
sideVars == <<cliVars, formVars, downloadVars>>

otherVars == <<geoVars, posterVars, edgeVars, sideVars>>

vars == <<webVars, geoVars, posterVars, edgeVars, sideVars>>

Ids == 1..MaxOrders
Times == 0..MaxTime
Bump(n) == IF n < MaxCount THEN n + 1 ELSE MaxCount

(* ------------------------------ the store ------------------------------ *)
\* the point the geocoder gives for the city of an order
GeoPoint == <<48, 2>>

Order(id, city, theme, email) ==
    [session_id |-> id, city |-> city, theme |-> theme, email |-> email,
     poster_filename |-> NoName, invoice_filename |-> InvoiceFilename(id),
     paid |-> FALSE, coordinates |-> GeoPoint]

NoOrder == Order(0, "Paris", "noir", "none")

WriteFile(dir, name, doc) ==
    [k \in DOMAIN dir \cup {name} |-> IF k = name THEN doc ELSE dir[k]]

\* the identifier Stripe gives the checkout session of an order
StripeSessionId(id) == 0 - id

\* a save_order that files the order under Stripe's checkout session id
save_order_as_stripe_session(dir, order) ==
    WriteFile(dir, StripeSessionId(order.session_id),
              [order EXCEPT !.session_id = StripeSessionId(order.session_id)])

\* save_order: writes ORDERS_DIR / f"{order.session_id}.json"
save_order(dir, order) == WriteFile(dir, order.session_id, order)

order_exists(session_id) == session_id \in DOMAIN orderFiles
load_order(session_id) == orderFiles[session_id]

\* build_invoice: the snapshot written under order.invoice_filename
build_invoice(dir, order) ==
    WriteFile(dir, order.invoice_filename,
              [invoice_id |-> order.session_id, city |-> order.city,
               theme |-> order.theme, email |-> order.email])

\* send_email: TRUE when a message goes out (SMTP is configured)
send_email(order, posters, invoices) ==
    /\ order.email # "none"
    /\ order.poster_filename \in DOMAIN posters
    /\ order.invoice_filename \in DOMAIN invoices

(* ----------------------------- requests -------------------------------- *)
\* a thread's request: the handler (op), its place in it (pc), the order it
\* loaded (snap) and its working copy (order), what create_poster was asked
\* to draw (want, out, wm) and the background colour it has read (bg)
IdleReq ==
    [pc |-> "idle", op |-> "none", sid |-> 0, order |-> NoOrder,
     snap |-> NoOrder, out |-> NoName, want |-> "none", bg |-> <<>>,
     wm |-> FALSE]

Idle(t) == req[t].pc = "idle"

\* the server hands a new request to its first free thread
Free(t) ==
    /\ Idle(t)
    /\ Cardinality({u \in Threads : ~Idle(u)}) < workers
    /\ served < MaxRequests
    /\ \A u \in Threads : Idle(u) => ThreadRank(t) <= ThreadRank(u)

\* the request is accepted and the handler has run up to its next shared access
Start(t, r) ==
    /\ req' = [req EXCEPT ![t] = r]
    /\ served' = served + 1

\* the handler answers at once and nothing has changed (error page, abort,
\* cached file)
Answered == UNCHANGED vars

\* the handler of thread t has answered
Finish(t) == req' = [req EXCEPT ![t] = IdleReq]

NewReq(op, order) ==
    [IdleReq EXCEPT !.op = op, !.sid = order.session_id, !.order = order,
                    !.snap = order]

\* the handler has set poster.THEME and is about to call create_poster
Rendering(r, theme, out, wm) ==
    [r EXCEPT !.pc = "render1", !.want = theme, !.out = out, !.wm = wm]

(* POST /create *)
create(t, city, theme, email, found) ==
    /\ Free(t)
    /\ email = customer
    /\ IF theme \notin AVAILABLE_THEMES
       THEN Answered    \* "Invalid theme selected."
       ELSE IF ~found
       THEN Answered    \* get_coordinates raises ValueError: 500
       ELSE /\ uuids < MaxOrders
            /\ uuids' = uuids + 1
            /\ THEME' = load_theme(theme)
            /\ Start(t, Rendering(NewReq("create", Order(uuids + 1, city, theme, email)),
                                  theme, PreviewFilename(uuids + 1, theme), TRUE))
            /\ UNCHANGED <<workers, stripeReady, customer, orderFiles, invoiceFiles, posterFiles,
                           previewFiles, now, checkout, events,
                           deliveries, whRenders, whEmails, emails>>
    /\ UNCHANGED otherVars

\* create, after the preview is rendered: save_order and build_invoice
create_save(t) ==
    /\ req[t].pc = "rendered" /\ req[t].op = "create"
    /\ orderFiles' = save_order(orderFiles, req[t].order)
    /\ invoiceFiles' = build_invoice(invoiceFiles, req[t].order)
    /\ Finish(t)
    /\ UNCHANGED <<workers, stripeReady, customer, posterFiles, previewFiles, THEME, now, uuids,
                   checkout, events, deliveries, whRenders, whEmails,
                   emails, served>>
    /\ UNCHANGED otherVars

(* create_poster: fetch the layers and read the first colours *)
create_poster_begin(t, ok) ==
    /\ req[t].pc = "render1"
    /\ IF ok
       THEN req' = [req EXCEPT ![t].pc = "render2",
                               ![t].bg = ThemeColour(THEME, "bg")]
       ELSE Finish(t)   \* the street network fetch raised: 500
    /\ UNCHANGED <<workers, stripeReady, customer, orderFiles, invoiceFiles,
                   posterFiles, previewFiles, THEME, now, uuids, checkout,
                   events, deliveries, whRenders, whEmails, emails, served>>
    /\ UNCHANGED otherVars

(* create_poster: read the remaining colours and save the figure *)
create_poster_end(t) ==
    /\ req[t].pc = "render2"
    /\ IF req[t].wm
       THEN /\ previewFiles' = previewFiles \cup {req[t].out}
            /\ UNCHANGED posterFiles
       ELSE /\ posterFiles' = WriteFile(posterFiles, req[t].out, req[t].sid)
            /\ UNCHANGED previewFiles
    /\ whRenders' = IF req[t].op = "stripe_webhook"
                    THEN [whRenders EXCEPT ![req[t].sid] = Bump(@)]
                    ELSE whRenders
    /\ req' = [req EXCEPT ![t].pc = "rendered", ![t].bg = <<>>]
    /\ UNCHANGED <<workers, stripeReady, customer, orderFiles, invoiceFiles, THEME, now, uuids,
                   checkout, events, deliveries, whEmails, emails,
                   served>>
    /\ UNCHANGED otherVars

(* GET /preview-image/<session_id>/<theme_name> *)
preview_image(t, session_id, theme_name) ==
    /\ Free(t)
    /\ IF ~order_exists(session_id)
       THEN Answered    \* 404
       ELSE IF theme_name \notin AVAILABLE_THEMES
       THEN Answered    \* 400
       ELSE IF PreviewFilename(session_id, theme_name) \in previewFiles
       THEN Answered    \* the preview on disk
       ELSE /\ THEME' = load_theme(theme_name)
            /\ Start(t, Rendering(NewReq("preview_image", load_order(session_id)),
                                  theme_name,
                                  PreviewFilename(session_id, theme_name), TRUE))
            /\ UNCHANGED <<workers, stripeReady, customer, orderFiles, invoiceFiles, posterFiles,
                           previewFiles, now, uuids, checkout, events,
                           deliveries, whRenders, whEmails, emails>>
    /\ UNCHANGED otherVars

\* preview_image after the render: send_file
preview_image_send(t) ==
    /\ req[t].pc = "rendered" /\ req[t].op = "preview_image"
    /\ Finish(t)
    /\ UNCHANGED <<workers, stripeReady, customer, orderFiles, invoiceFiles, posterFiles,
                   previewFiles, THEME, now, uuids, checkout, events,
                   deliveries, whRenders, whEmails, emails, served>>
    /\ UNCHANGED otherVars

\* purchase's last part: a Stripe checkout session for the order when Stripe
\* is configured, a redirect to generate_final otherwise
purchase_checkout(order) ==
    IF stripeReady THEN checkout \cup {order.session_id} ELSE checkout

(* POST /purchase/<session_id> *)
purchase(t, session_id, selected_theme) ==
    /\ Free(t)
    /\ IF ~order_exists(session_id)
       THEN Answered    \* 404
       ELSE LET order == load_order(session_id) IN
            IF selected_theme # order.theme
            THEN /\ Start(t, [NewReq("purchase", order) EXCEPT
                                 !.pc = "save", !.order.theme = selected_theme])
                 /\ UNCHANGED <<workers, stripeReady, customer, orderFiles, invoiceFiles,
                                posterFiles, previewFiles, THEME, now, uuids,
                                checkout, events, deliveries,
                                whRenders, whEmails, emails>>
            ELSE /\ checkout' = purchase_checkout(order)
                 /\ UNCHANGED <<workers, stripeReady, customer, orderFiles, invoiceFiles,
                                posterFiles, previewFiles, THEME, req, now,
                                uuids, events, deliveries, whRenders,
                                whEmails, emails, served>>
    /\ UNCHANGED otherVars

\* a purchase that writes the invoice again after saving the order
purchase_save_rebuilds_invoice(t) ==
    /\ req[t].pc = "save" /\ req[t].op = "purchase"
    /\ orderFiles' = save_order(orderFiles, req[t].order)
    /\ invoiceFiles' = build_invoice(invoiceFiles, req[t].order)
    /\ checkout' = purchase_checkout(req[t].order)
    /\ Finish(t)
    /\ UNCHANGED <<workers, stripeReady, customer, posterFiles, previewFiles, THEME,
                   now, uuids, events, deliveries, whRenders, whEmails, emails,
                   served>>
    /\ UNCHANGED otherVars

\* purchase with a changed theme: save_order, then checkout or redirect
purchase_save(t) ==
    /\ req[t].pc = "save" /\ req[t].op = "purchase"
    /\ orderFiles' = save_order(orderFiles, req[t].order)
    /\ checkout' = purchase_checkout(req[t].order)
    /\ Finish(t)
    /\ UNCHANGED <<workers, stripeReady, customer, invoiceFiles, posterFiles, previewFiles, THEME,
                   now, uuids, events, deliveries, whRenders,
                   whEmails, emails, served>>
    /\ UNCHANGED otherVars

(* the customer pays on Stripe's page: Stripe signs a completed event *)
StripePay(o) ==
    /\ o \in checkout
    /\ o \notin events
    /\ events' = events \cup {o}
    /\ UNCHANGED <<workers, stripeReady, customer, orderFiles, invoiceFiles, posterFiles,
                   previewFiles, THEME, req, now, uuids, checkout,
                   deliveries, whRenders, whEmails, emails, served>>
    /\ UNCHANGED otherVars

\* a webhook without the paid check
webhook_always_processes(order) == TRUE

\* the webhook's test that lets a delivery process the order
webhook_must_process(order) == ~order.paid

\* the webhook's answer to a delivery that does not process an order
stripe_webhook_answer(kind, order_id) ==
    IF ~stripeReady THEN <<500, "error">>     \* no webhook secret
    ELSE IF kind = "forged" THEN <<400, "error">>
    ELSE IF kind = "other" THEN <<200, "success">>
    ELSE IF ~order_exists(order_id) THEN <<200, "ignored">>
    ELSE <<200, "success">>

(* POST /webhook/stripe *)
stripe_webhook(t, kind, order_id, time) ==
    /\ Free(t)
    /\ time >= now
    /\ kind = "completed" => order_id \in events
    /\ IF \/ stripe_webhook_answer(kind, order_id) # <<200, "success">>
          \/ kind = "other"
       THEN Answered
       ELSE LET order == load_order(order_id) IN
            IF webhook_must_process(order)
            THEN /\ THEME' = load_theme(order.theme)
                 /\ Start(t, Rendering([NewReq("stripe_webhook", order) EXCEPT
                                           !.order.paid = TRUE],
                                       order.theme, PosterFilename(order, time),
                                       FALSE))
                 /\ now' = time
                 /\ UNCHANGED <<workers, stripeReady, customer, orderFiles,
                                invoiceFiles, posterFiles, previewFiles, uuids,
                                checkout, events, deliveries, whRenders,
                                whEmails, emails>>
            ELSE /\ deliveries' = [deliveries EXCEPT ![order_id] = Bump(@)]
                 /\ UNCHANGED <<workers, stripeReady, customer, orderFiles, invoiceFiles,
                                posterFiles, previewFiles, THEME, req, now,
                                uuids, checkout, events, whRenders, whEmails,
                                emails, served>>
    /\ UNCHANGED otherVars

\* stripe_webhook after the render: poster_filename, save_order, send_email
stripe_webhook_save(t) ==
    /\ req[t].pc = "rendered" /\ req[t].op = "stripe_webhook"
    /\ LET order == [req[t].order EXCEPT !.poster_filename = req[t].out]
           sent == send_email(order, posterFiles, invoiceFiles)
       IN /\ orderFiles' = save_order(orderFiles, order)
          /\ whEmails' = IF sent THEN [whEmails EXCEPT ![order.session_id] = Bump(@)]
                         ELSE whEmails
          /\ emails' = IF sent THEN [emails EXCEPT ![order.session_id] = Bump(@)]
                       ELSE emails
          /\ deliveries' = [deliveries EXCEPT ![order.session_id] = Bump(@)]
    /\ Finish(t)
    /\ UNCHANGED <<workers, stripeReady, customer, invoiceFiles, posterFiles, previewFiles, THEME,
                   now, uuids, checkout, events, whRenders, served>>
    /\ UNCHANGED otherVars

(* GET /success?order_id=... *)
success(t, order_id, time) ==
    /\ Free(t)
    /\ time >= now
    /\ IF ~order_exists(order_id)
       THEN Answered    \* 404
       ELSE LET order == load_order(order_id) IN
            IF ~order.paid
            THEN Answered    \* processing.html
            ELSE IF order.poster_filename = NoName
            THEN /\ THEME' = load_theme(order.theme)
                 /\ Start(t, Rendering(NewReq("success", order), order.theme,
                                       PosterFilename(order, time), FALSE))
                 /\ now' = time
                 /\ UNCHANGED <<workers, stripeReady, customer, orderFiles,
                                invoiceFiles, posterFiles, previewFiles, uuids,
                                checkout, events, deliveries,
                                whRenders, whEmails, emails>>
            ELSE /\ emails' = IF send_email(order, posterFiles, invoiceFiles)
                              THEN [emails EXCEPT ![order_id] = Bump(@)]
                              ELSE emails
                 /\ UNCHANGED <<workers, stripeReady, customer, orderFiles, invoiceFiles,
                                posterFiles, previewFiles, THEME, req, now,
                                uuids, checkout, events, deliveries,
                                whRenders, whEmails, served>>
    /\ UNCHANGED otherVars

(* GET /generate-final/<session_id> *)
generate_final(t, session_id, time) ==
    /\ Free(t)
    /\ time >= now
    /\ IF ~order_exists(session_id)
       THEN Answered    \* 404
       ELSE LET order == load_order(session_id) IN
            /\ THEME' = load_theme(order.theme)
            /\ Start(t, Rendering(NewReq("generate_final", order), order.theme,
                                  PosterFilename(order, time), FALSE))
            /\ now' = time
            /\ UNCHANGED <<workers, stripeReady, customer, orderFiles, invoiceFiles,
                           posterFiles, previewFiles, uuids, checkout, events,
                           deliveries, whRenders, whEmails, emails>>
    /\ UNCHANGED otherVars

\* generate_final, and success for an order without a poster, after the
\* render: poster_filename, paid, save_order, send_email
final_save(t) ==
    /\ req[t].pc = "rendered" /\ req[t].op \in {"generate_final", "success"}
    /\ LET order == [req[t].order EXCEPT !.poster_filename = req[t].out,
                                         !.paid = TRUE]
       IN /\ orderFiles' = save_order(orderFiles, order)
          /\ emails' = IF send_email(order, posterFiles, invoiceFiles)
                       THEN [emails EXCEPT ![order.session_id] = Bump(@)]
                       ELSE emails
    /\ Finish(t)
    /\ UNCHANGED <<workers, stripeReady, customer, invoiceFiles, posterFiles, previewFiles, THEME,
                   now, uuids, checkout, events, deliveries,
                   whRenders, whEmails, served>>
    /\ UNCHANGED otherVars

\* download without the check of order.paid
download_code_unpaid(session_id, filename) ==
    IF ~order_exists(session_id) THEN 404
    ELSE LET order == load_order(session_id) IN
         IF filename = order.poster_filename
            /\ order.poster_filename \in DOMAIN posterFiles THEN 200
         ELSE IF filename = order.invoice_filename
                 /\ order.invoice_filename \in DOMAIN invoiceFiles THEN 200
         ELSE 404

\* download's answer: the status code for a session and a filename
download_code(session_id, filename) ==
    IF ~order_exists(session_id) THEN 404
    ELSE LET order == load_order(session_id) IN
         IF ~order.paid THEN 403
         ELSE IF filename = order.poster_filename
                 /\ order.poster_filename \in DOMAIN posterFiles THEN 200
         ELSE IF filename = order.invoice_filename
                 /\ order.invoice_filename \in DOMAIN invoiceFiles THEN 200
         ELSE 404

(* GET /download/<session_id>/<filename> *)
download(t, session_id, filename) ==
    /\ Free(t)
    /\ download_code(session_id, filename) \in {200, 403, 404}
    /\ Answered
    /\ UNCHANGED otherVars

\* no file is sent
NoFile == <<"none", NoName>>
\* the file download sends: the directory it is read from and its name
download_file(session_id, filename) ==
    IF download_code(session_id, filename) # 200 THEN NoFile
    ELSE IF filename = load_order(session_id).poster_filename
            /\ filename \in DOMAIN posterFiles
    THEN <<"posters", filename>>
    ELSE <<"invoices", filename>>

NoDownload == [session_id |-> 0, filename |-> NoName, code |-> 0, file |-> NoFile]

(* GET /download/<session_id>/<filename>, with its answer kept *)
download_send(t, session_id, filename) ==
    /\ Free(t)
    /\ downloaded' = [session_id |-> session_id, filename |-> filename,
                      code |-> download_code(session_id, filename),
                      file |-> download_file(session_id, filename)]
    /\ UNCHANGED <<webVars, geoVars, posterVars, edgeVars, cliVars, formVars>>

\* the file names a client may ask /download for
DownloadNames == {InvoiceFilename(i) : i \in Ids} \cup DOMAIN posterFiles

WebhookKinds == {"forged", "other", "completed"}

Step(t) ==
    \/ \E city \in Cities, theme \in FormThemes, email \in Emails, found \in BOOLEAN :
          create(t, city, theme, email, found)
    \/ create_save(t)
    \/ \E ok \in BOOLEAN : create_poster_begin(t, ok)
    \/ create_poster_end(t)
    \/ \E o \in Ids, theme \in FormThemes : preview_image(t, o, theme)
    \/ preview_image_send(t)
    \/ \E o \in Ids, theme \in FormThemes : purchase(t, o, theme)
    \/ purchase_save(t)
    \/ \E kind \in WebhookKinds, o \in Ids , time \in Times : stripe_webhook(t, kind, o, time)
    \/ stripe_webhook_save(t)
    \/ \E o \in Ids, time \in Times : success(t, o, time)
    \/ \E o \in Ids, time \in Times : generate_final(t, o, time)
    \/ final_save(t)
    \/ \E o \in Ids, f \in DownloadNames : download(t, o, f)

(* ----------------------- get_coordinates ------------------------------- *)
\* longest city name tried, in characters
MaxLen == 2
\* requests the geocoding service answers in one run
MaxGeoCalls == 2
\* seconds of time.time() that get_coordinates may see
MaxGeoTime == 3

\* the letters city names are spelled with: one letter in both cases
Chars == {"P", "p"}
\* str.lower() on one character
LowerChar(c) == CASE c = "P" -> "p" [] c = "F" -> "f" [] OTHER -> c
\* str.lower()
Lower(str) == [i \in 1..Len(str) |-> LowerChar(str[i])]

CityNames == UNION {[1..n -> Chars] : n \in 1..MaxLen}
CountryNames == {<<"F">>, <<"f">>}

\* f"{city.lower()}, {country.lower()}"
cache_key(city, country) == Lower(city) \o <<",", " ">> \o Lower(country)

\* what geolocator.geocode may answer: a location, or None
Locations == {[latitude |-> 48, longitude |-> 2, address |-> "Paris"],
              [latitude |-> 33, longitude |-> 95, address |-> "Paris, Texas"]}
NoLocation == [latitude |-> 0, longitude |-> 0, address |-> "None"]
\* geolocator.geocode raising (service unavailable, quota exceeded, ...)
GeocoderError == [latitude |-> 0, longitude |-> 0, address |-> "GeocoderError"]
\* seconds the service may take to answer
Delays == {0, 1}

\* a cache that keeps one entry only
cache_store_evicting(cache, key, location) ==
    [k \in {key} |-> <<location.latitude, location.longitude, location.address>>]

\* _geocode_cache[cache_key] = (latitude, longitude, address)
cache_store(cache, key, location) ==
    [k \in DOMAIN cache \cup {key} |->
        IF k = key
        THEN <<location.latitude, location.longitude, location.address>>
        ELSE cache[k]]

\* what a call hands back: the arguments, whether the cached branch was
\* taken, and the returned pair or the exception raised
Returned(city, country, cached, result) ==
    [city |-> city, country |-> country, cached |-> cached, result |-> result]

\* the rate limit: when the request goes out for a call that reached the
\* service at time start ('if elapsed < 1.0: time.sleep(1.0 - elapsed)')
send_time(start) ==
    LET elapsed == start - last_geocode_time
    IN IF elapsed < 1 THEN start + (1 - elapsed) ELSE start

(* get_coordinates(city, country), called at time start; location is the
   service's answer, given after took seconds *)
get_coordinates(city, country, location, start, took) ==
    LET key == cache_key(city, country) IN
    /\ IF key \in DOMAIN geocode_cache
       THEN /\ start = geoNow /\ took = 0    \* returns before the clock is read
            /\ lastCall' = Returned(city, country, TRUE,
                               <<geocode_cache[key][1], geocode_cache[key][2]>>)
            /\ UNCHANGED <<geocode_cache, geoCalls, geoNow, last_geocode_time, sentAt>>
       ELSE /\ start >= geoNow
            /\ geoCalls < MaxGeoCalls
            /\ send_time(start) + took <= MaxGeoTime
            /\ geoCalls' = geoCalls + 1
            /\ sentAt' = send_time(start)
            /\ geoNow' = send_time(start) + took
            /\ IF location = GeocoderError
               THEN /\ UNCHANGED <<geocode_cache, last_geocode_time>>
                    /\ lastCall' = Returned(city, country, FALSE, <<"GeocoderError">>)
               ELSE /\ last_geocode_time' = send_time(start) + took
                    /\ IF location # NoLocation
                       THEN /\ geocode_cache' = cache_store(geocode_cache, key, location)
                            /\ lastCall' = Returned(city, country, FALSE,
                                               <<location.latitude, location.longitude>>)
                       ELSE /\ UNCHANGED geocode_cache
                            /\ lastCall' = Returned(city, country, FALSE, <<"ValueError">>)
    /\ UNCHANGED <<webVars, posterVars, edgeVars, sideVars>>

\* a process that has just imported the module: the clock reads a time long
\* after the epoch and _last_geocode_time = 0
GeoInit ==
    /\ geocode_cache = <<>>
    /\ geoCalls = 0
    /\ lastCall = Returned(<<>>, <<>>, FALSE, <<>>)
    /\ geoNow = 1
    /\ last_geocode_time = 0
    /\ sentAt = 0

NextGeo ==
    \E city \in CityNames, country \in CountryNames,
       location \in Locations \cup {NoLocation, GeocoderError},
       start \in 0..MaxGeoTime, took \in Delays :
        get_coordinates(city, country, location, start, took)

(* ------------------------- create_poster ------------------------------- *)
LayerSet == {"streets", "water", "parks"}

\* what a fetch can produce: _fetch_street_network a graph or an exception,
\* _fetch_water_features and _fetch_parks features, an empty frame, or None
\* when the request fails
FetchOutcomes(layer) ==
    IF layer = "streets" THEN {"graph", "raise"}
    ELSE {"features", "empty", "None"}

\* the value a finished fetch hands to future.result()
FetchResult(layer, outcome) ==
    IF outcome \in {"None", "raise"} THEN <<outcome, "">> ELSE <<outcome, layer>>

NoResult == <<"pending", "">>
\* Python's None
None == <<"None", "">>

\* create_poster is called
cp_call ==
    /\ cp \in {"idle", "returned", "raised"}
    /\ cp' = "submit_streets"
    /\ futures' = [l \in LayerSet |-> "none"]
    /\ fetched' = [l \in LayerSet |-> NoResult]
    /\ layers' = [l \in LayerSet |-> None]
    /\ drawn' = <<>>
    /\ outputFile' = FALSE
    /\ finishOrder' = <<>>
    /\ UNCHANGED <<webVars, geoVars, edgeVars, sideVars>>

\* the place after submitting or awaiting a layer
cp_after(place) ==
    CASE place = "submit_streets" -> "submit_water"
      [] place = "submit_water" -> "submit_parks"
      [] place = "submit_parks" -> "await_streets"
      [] place = "await_streets" -> "await_water"
      [] place = "await_water" -> "await_parks"
      [] place = "await_parks" -> "shutdown"

cp_layer(place) ==
    CASE place \in {"submit_streets", "await_streets"} -> "streets"
      [] place \in {"submit_water", "await_water"} -> "water"
      [] place \in {"submit_parks", "await_parks"} -> "parks"

\* executor.submit(_fetch_..., point, dist): a worker starts on it at once
cp_submit ==
    /\ cp \in {"submit_streets", "submit_water", "submit_parks"}
    /\ futures' = [futures EXCEPT ![cp_layer(cp)] = "running"]
    /\ cp' = cp_after(cp)
    /\ UNCHANGED <<fetched, layers, drawn, outputFile, finishOrder>>
    /\ UNCHANGED <<webVars, geoVars, edgeVars, sideVars>>

\* a worker thread finishes its fetch
cp_fetch_done(layer, outcome) ==
    /\ futures[layer] = "running"
    /\ outcome \in FetchOutcomes(layer)
    /\ futures' = [futures EXCEPT ![layer] = "done"]
    /\ fetched' = [fetched EXCEPT ![layer] = FetchResult(layer, outcome)]
    /\ finishOrder' = Append(finishOrder, layer)
    /\ UNCHANGED <<cp, layers, drawn, outputFile>>
    /\ UNCHANGED <<webVars, geoVars, edgeVars, sideVars>>

\* a binding that stores the water result in parks and the parks result in water
cp_bind_swapped(name, result) ==
    [layers EXCEPT ![CASE name = "water" -> "parks"
                       [] name = "parks" -> "water"
                       [] OTHER -> name] = result]

\* if name == 'Street network': G = result, elif ... water ..., elif ... parks
cp_bind(name, result) == [layers EXCEPT ![name] = result]

\* result = future.result(): waits for the fetch, then binds or re-raises
cp_await ==
    /\ cp \in {"await_streets", "await_water", "await_parks"}
    /\ futures[cp_layer(cp)] = "done"
    /\ IF fetched[cp_layer(cp)][1] = "raise"
       THEN cp' = "shutdown_raise" /\ UNCHANGED layers
       ELSE /\ layers' = cp_bind(cp_layer(cp), fetched[cp_layer(cp)])
            /\ cp' = cp_after(cp)
    /\ UNCHANGED <<futures, fetched, drawn, outputFile, finishOrder>>
    /\ UNCHANGED <<webVars, geoVars, edgeVars, sideVars>>

\* leaving the with block: executor.shutdown(wait=True), then the plot or
\* the pending exception
cp_shutdown ==
    /\ cp \in {"shutdown", "shutdown_raise"}
    /\ \A l \in LayerSet : futures[l] = "done"
    /\ cp' = IF cp = "shutdown" THEN "plot" ELSE "raised"
    /\ UNCHANGED <<futures, fetched, layers, drawn, outputFile, finishOrder>>
    /\ UNCHANGED <<webVars, geoVars, edgeVars, sideVars>>

\* 'water is not None and not water.empty'
cp_plottable(value) == value # None /\ value[1] # "empty"

\* the plot: water and parks polygons when present, then the roads
cp_plot ==
    /\ cp = "plot"
    /\ drawn' = (IF cp_plottable(layers["water"]) THEN <<layers["water"]>> ELSE <<>>)
                \o (IF cp_plottable(layers["parks"]) THEN <<layers["parks"]>> ELSE <<>>)
                \o <<layers["streets"]>>
    /\ cp' = "save"
    /\ UNCHANGED <<futures, fetched, layers, outputFile, finishOrder>>
    /\ UNCHANGED <<webVars, geoVars, edgeVars, sideVars>>

\* plt.savefig(output_file, ...)
cp_savefig ==
    /\ cp = "save"
    /\ outputFile' = TRUE
    /\ cp' = "returned"
    /\ UNCHANGED <<futures, fetched, layers, drawn, finishOrder>>
    /\ UNCHANGED <<webVars, geoVars, edgeVars, sideVars>>

PosterInit ==
    /\ cp = "idle"
    /\ futures = [l \in LayerSet |-> "none"]
    /\ fetched = [l \in LayerSet |-> NoResult]
    /\ layers = [l \in LayerSet |-> None]
    /\ drawn = <<>>
    /\ outputFile = FALSE
    /\ finishOrder = <<>>

NextPoster ==
    \/ cp_call
    \/ cp_submit
    \/ \E l \in LayerSet, outcome \in {"graph", "raise", "features", "empty", "None"} :
          cp_fetch_done(l, outcome)
    \/ cp_await
    \/ cp_shutdown
    \/ cp_plot
    \/ cp_savefig

(* -------------- get_edge_colors_and_widths_by_type --------------------- *)
\* most edges of a graph tried
MaxEdges == 2

HighwayTypes == {"motorway", "motorway_link", "trunk", "trunk_link", "primary",
                 "primary_link", "secondary", "secondary_link", "tertiary",
                 "tertiary_link", "residential", "living_street",
                 "unclassified", "service"}
\* the 'highway' entry of an edge: a string, a list of strings, or missing
Str(v) == [kind |-> "str", v |-> v]
List(v) == [kind |-> "list", v |-> v]
Missing == [kind |-> "missing", v |-> ""]
HighwayData ==
    {Str(v) : v \in HighwayTypes} \cup
    {Missing, List(<<>>), List(<<"motorway", "residential">>),
     List(<<"residential", "motorway">>), List(<<"service", "primary">>),
     List(<<"tertiary_link">>)}

\* a bucketing that looks at the last element of a list
highway_of_last(data) ==
    LET highway == IF data.kind = "missing" THEN Str("unclassified") ELSE data
    IN IF highway.kind = "list"
       THEN (IF highway.v # <<>> THEN highway.v[Len(highway.v)] ELSE "unclassified")
       ELSE highway.v

\* data.get('highway', 'unclassified'), then the first element of a list
highway_of(data) ==
    LET highway == IF data.kind = "missing" THEN Str("unclassified") ELSE data
    IN IF highway.kind = "list"
       THEN (IF highway.v # <<>> THEN highway.v[1] ELSE "unclassified")
       ELSE highway.v

\* the if/elif chain: colour and width (in tenths) of one road type
edge_style(highway) ==
    IF highway \in {"motorway", "motorway_link"}
    THEN <<ThemeColour(THEME, "road_motorway"), 12>>
    ELSE IF highway \in {"trunk", "trunk_link", "primary", "primary_link"}
    THEN <<ThemeColour(THEME, "road_primary"), 10>>
    ELSE IF highway \in {"secondary", "secondary_link"}
    THEN <<ThemeColour(THEME, "road_secondary"), 8>>
    ELSE IF highway \in {"tertiary", "tertiary_link"}
    THEN <<ThemeColour(THEME, "road_tertiary"), 6>>
    ELSE IF highway \in {"residential", "living_street", "unclassified"}
    THEN <<ThemeColour(THEME, "road_residential"), 4>>
    ELSE <<ThemeColour(THEME, "road_default"), 4>>

\* the loop over G.edges(data=True): (edge_colors, edge_widths)
RECURSIVE edge_loop(_, _, _)
edge_loop(rest, edge_colors, edge_widths) ==
    IF rest = <<>> THEN <<edge_colors, edge_widths>>
    ELSE LET style == edge_style(highway_of(Head(rest)))
         IN edge_loop(Tail(rest), Append(edge_colors, style[1]),
                      Append(edge_widths, style[2]))

get_edge_colors_and_widths_by_type(G) == edge_loop(G, <<>>, <<>>)

\* the call made by create_poster on the fetched graph
edge_call ==
    /\ edgeStyle = <<>>
    /\ edgeStyle' = <<get_edge_colors_and_widths_by_type(edges)>>
    /\ UNCHANGED <<edges, webVars, geoVars, posterVars, sideVars>>

EdgeInit ==
    /\ edges = <<>>
    /\ edgeStyle = <<>>

Graphs == UNION {[1..n -> HighwayData] : n \in 0..MaxEdges}

(* ------------------------- the form of /create ------------------------- *)
\* a form field the browser left out
NoField == <<"absent">>
\* text of a form field, as a sequence of characters
Text(str) ==
    CASE str = "abc" -> <<"a", "b", "c">>
      [] str = "2999" -> <<"2", "9", "9", "9">>
      [] str = "3000" -> <<"3", "0", "0", "0">>
      [] str = "29000" -> <<"2", "9", "0", "0", "0">>
      [] str = "40000" -> <<"4", "0", "0", "0", "0">>
      [] str = "40001" -> <<"4", "0", "0", "0", "1">>
      [] str = "150" -> <<"1", "5", "0">>
      [] str = "200" -> <<"2", "0", "0">>
      [] str = "240" -> <<"2", "4", "0">>
      [] str = "300" -> <<"3", "0", "0">>

\* value of a decimal digit, -1 for any other character
DigitValue(c) ==
    CASE c = "0" -> 0 [] c = "1" -> 1 [] c = "2" -> 2 [] c = "3" -> 3
      [] c = "4" -> 4 [] c = "5" -> 5 [] c = "6" -> 6 [] c = "7" -> 7
      [] c = "8" -> 8 [] c = "9" -> 9 [] OTHER -> 0 - 1

RECURSIVE DecimalValue(_)
DecimalValue(chars) ==
    IF chars = <<>> THEN 0
    ELSE 10 * DecimalValue(SubSeq(chars, 1, Len(chars) - 1))
         + DigitValue(chars[Len(chars)])

\* int(text): the number, or ValueError
ValueError == 0 - 1
int(chars) ==
    IF chars # <<>> /\ \A i \in 1..Len(chars) : DigitValue(chars[i]) >= 0
    THEN DecimalValue(chars)
    ELSE ValueError

\* str.strip() on the city, country and email texts tried
strip(str) ==
    CASE str = "  " -> ""
      [] str = " Paris " -> "Paris"
      [] OTHER -> str

\* re.match(email_pattern, email) on the addresses tried
email_matches(email) == email \in {"a@x.io"}

\* a wider range(3000, 40002)
ALLOWED_DISTANCES_wider == 3000..40001

\* ALLOWED_DISTANCES = range(3000, 40001)
ALLOWED_DISTANCES == 3000..40000
ALLOWED_DPI == {150, 240, 300}
\* keys of SIZE_OPTIONS
SIZE_OPTIONS == {"8x10", "12x16", "18x24", "24x36",
                 "10x8", "16x12", "24x18", "36x24"}

\* forms the browser may submit
Forms ==
    [city : {"  ", " Paris "}, country : {"", "France"},
     theme : FormThemes \cup {"absent"},
     distance : {NoField, Text("abc"), Text("2999"), Text("3000"),
                 Text("40000"), Text("40001")},
     dpi : {NoField, Text("abc"), Text("150"), Text("200"), Text("300")},
     size : {"absent", "36x24", "5x5"},
     email : {"", "  ", "a@x.io", "a@x"}]
\* the form filled in with the defaults of the page
NoForm == [city |-> " Paris ", country |-> "France", theme |-> "noir",
           distance |-> Text("29000"), dpi |-> Text("300"), size |-> "12x16",
           email |-> ""]
NoPage == <<"none", "">>

\* request.form.get(name, default) for the fields that have a default
form_get(fields) ==
    [fields EXCEPT
        !.theme = IF @ = "absent" THEN "feature_based" ELSE @,
        !.distance = IF @ = NoField THEN Text("29000") ELSE @,
        !.dpi = IF @ = NoField THEN Text("300") ELSE @,
        !.size = IF @ = "absent" THEN "12x16" ELSE @]

\* request.form.get("email", "").strip() or None
form_email(fields) ==
    IF strip(fields.email) = "" THEN "none" ELSE strip(fields.email)

\* the checks of create, in the order of the code: the error message of the
\* first one that fails, "" when all pass
create_error(fields) ==
    LET f == form_get(fields) IN
    IF int(f.distance) = ValueError THEN "Invalid distance value."
    ELSE IF int(f.distance) \notin ALLOWED_DISTANCES
    THEN "Distance must be between 3,000 and 40,000 meters."
    ELSE IF int(f.dpi) = ValueError THEN "Invalid DPI value."
    ELSE IF int(f.dpi) \notin ALLOWED_DPI THEN "DPI must be 150, 240, or 300."
    ELSE IF form_email(f) # "none" /\ ~email_matches(form_email(f))
    THEN "Invalid email address format."
    ELSE IF strip(f.city) = "" \/ strip(f.country) = ""
    THEN "City and country are required."
    ELSE IF f.size \notin SIZE_OPTIONS THEN "Unsupported size selection."
    ELSE IF f.theme \notin AVAILABLE_THEMES THEN "Invalid theme selected."
    ELSE ""

(* POST /create with the form of this run: the checks, the geocoder lookup,
   and the start of the preview render *)
create_form(t, found) ==
    LET f == form_get(form) IN
    /\ Free(t)
    /\ IF create_error(form) # ""
       THEN /\ page' = <<"index.html", create_error(form)>>
            /\ UNCHANGED <<lookup, webVars>>
       ELSE IF ~found
       THEN \* get_coordinates raises ValueError, which create does not catch
            /\ lookup' = "not_found"
            /\ page' = <<"500", "ValueError">>
            /\ UNCHANGED webVars
       ELSE /\ uuids < MaxOrders
            /\ lookup' = "found"
            /\ uuids' = uuids + 1
            /\ THEME' = load_theme(f.theme)
            /\ Start(t, Rendering(NewReq("create",
                                         Order(uuids + 1, strip(f.city), f.theme,
                                               form_email(f))),
                                  f.theme, PreviewFilename(uuids + 1, f.theme), TRUE))
            /\ UNCHANGED <<workers, stripeReady, customer, orderFiles, invoiceFiles,
                           posterFiles, previewFiles, now, checkout, events,
                           deliveries, whRenders, whEmails, emails, page>>
    /\ UNCHANGED <<form, geoVars, posterVars, edgeVars, cliVars, downloadVars>>

NextForm ==
    \E t \in Threads :
        \/ \E found \in BOOLEAN : create_form(t, found)
        \/ \E ok \in BOOLEAN : create_poster_begin(t, ok)
        \/ create_poster_end(t)
        \/ create_save(t)

(* ------------------- create_map_poster.py as a script ------------------- *)
\* POSTER_SIZES[size]["inches"]
PosterInches(size) ==
    CASE size = "small" -> <<11, 17>>
      [] size = "medium" -> <<18, 24>>
      [] size = "large" -> <<24, 36>>
      [] size = "xl" -> <<36, 48>>
POSTER_SIZES == {"small", "medium", "large", "xl"}

\* an option left out of the command line
Absent == "absent"
\* command lines tried: --city, --country, --theme, --size, --list-themes
Argvs ==
    [city : {Absent, "Paris"}, country : {Absent, "France"},
     theme : FormThemes \cup {Absent},
     size : POSTER_SIZES \cup {Absent, "huge"},
     list_themes : BOOLEAN]
NoArgv == [city |-> Absent, country |-> Absent, theme |-> Absent,
           size |-> Absent, list_themes |-> FALSE]

\* parser.add_argument(..., default=...): the value parse_args gives an option
parse_args(line) ==
    [line EXCEPT !.theme = IF line.theme = Absent THEN "feature_based" ELSE @,
                 !.size = IF line.size = Absent THEN "medium" ELSE @]

\* a value handed to create_poster as figsize: a size name or a pair of inches
SizeName(name) == [kind |-> "name", name |-> name, inches |-> <<>>]
Inches(pair) == [kind |-> "inches", name |-> "", inches |-> pair]
NoFigsize == [kind |-> "none", name |-> "", inches |-> <<>>]

\* create_poster(args.city, args.country, coords, args.distance, output_file,
\* args.size): the sixth positional parameter of create_poster is figsize
cli_figsize(args) == SizeName(args.size)

\* the script up to the theme: parse_args, the early exits, load_theme
cli_start ==
    /\ cliPc = "start"
    /\ LET args == parse_args(argv) IN
       IF argv.size \notin POSTER_SIZES \cup {Absent}
       THEN cliPc' = "exit2" /\ UNCHANGED THEME      \* argparse: invalid choice
       ELSE IF argv = NoArgv
       THEN cliPc' = "exit0" /\ UNCHANGED THEME      \* print_examples
       ELSE IF args.list_themes
       THEN cliPc' = "exit0" /\ UNCHANGED THEME      \* list_themes
       ELSE IF args.city = Absent \/ args.country = Absent
       THEN cliPc' = "exit1" /\ UNCHANGED THEME
       ELSE IF args.theme \notin AVAILABLE_THEMES
       THEN cliPc' = "exit1" /\ UNCHANGED THEME
       ELSE cliPc' = "geocode" /\ THEME' = load_theme(args.theme)
    /\ UNCHANGED <<argv, cliFigsize, cliOutput>>
    /\ UNCHANGED <<workers, stripeReady, customer, orderFiles, invoiceFiles,
                   posterFiles, previewFiles, req, now, uuids, checkout,
                   events, deliveries, whRenders, whEmails, emails, served>>
    /\ UNCHANGED <<geoVars, posterVars, edgeVars, formVars, downloadVars>>

\* coords = get_coordinates(...); output_file = generate_output_filename(...)
cli_geocode(found) ==
    /\ cliPc = "geocode"
    /\ cliPc' = IF found THEN "render" ELSE "error"   \* except Exception
    /\ UNCHANGED <<argv, cliFigsize, cliOutput>>
    /\ UNCHANGED <<webVars, geoVars, posterVars, edgeVars, formVars, downloadVars>>

\* create_poster(...): plt.subplots(figsize=figsize) needs a pair of numbers
cli_create_poster(ok) ==
    /\ cliPc = "render"
    /\ cliFigsize' = cli_figsize(parse_args(argv))
    /\ IF ok /\ cliFigsize'.kind = "inches"
       THEN cliPc' = "done" /\ cliOutput' = TRUE
       ELSE cliPc' = "error" /\ UNCHANGED cliOutput   \* except Exception
    /\ UNCHANGED argv
    /\ UNCHANGED <<webVars, geoVars, posterVars, edgeVars, formVars, downloadVars>>

\* the script is not running
SideInit ==
    /\ argv = NoArgv
    /\ cliPc = "off"
    /\ cliFigsize = NoFigsize
    /\ cliOutput = FALSE
    /\ form = NoForm
    /\ lookup = "none"
    /\ page = NoPage
    /\ downloaded = NoDownload

NextCli ==
    \/ cli_start
    \/ \E found \in BOOLEAN : cli_geocode(found)
    \/ \E ok \in BOOLEAN : cli_create_poster(ok)

WebInit ==
    /\ orderFiles = <<>>
    /\ invoiceFiles = <<>>
    /\ posterFiles = <<>>
    /\ previewFiles = {}
    /\ THEME = "None"
    /\ req = [t \in Threads |-> IdleReq]
    /\ now = 0
    /\ uuids = 0
    /\ checkout = {}
    /\ events = {}
    /\ deliveries = [o \in Ids |-> 0]
    /\ whRenders = [o \in Ids |-> 0]
    /\ whEmails = [o \in Ids |-> 0]
    /\ emails = [o \in Ids |-> 0]
    /\ served = 0

\* the deployment: Stripe keys present or not, and the customer of the run
WebConfig ==
    /\ stripeReady \in BOOLEAN
    /\ customer \in Emails

WebIdle ==
    /\ workers = 1
    /\ stripeReady = FALSE
    /\ customer = "none"
    /\ WebInit

\* a threaded server: every thread may be handling a request
Init ==
    /\ workers = Cardinality(Threads)
    /\ WebConfig /\ WebInit
    /\ GeoInit /\ PosterInit /\ EdgeInit /\ SideInit

Next ==
    \/ \E t \in Threads : Step(t)
    \/ \E o \in Ids : StripePay(o)

Spec == Init /\ [][Next]_vars

(* one request at a time: a server with a single synchronous worker *)
InitSeq ==
    /\ workers = 1
    /\ WebConfig /\ WebInit
    /\ GeoInit /\ PosterInit /\ EdgeInit /\ SideInit

SpecSeq == InitSeq /\ [][Next]_vars

(* the server started over an orders directory that already holds an order
   created in an earlier run, with its invoice and its preview *)
StoredOrder(theme, email) == Order(1, "Paris", theme, email)

InitStored ==
    /\ workers = Cardinality(Threads)
    /\ WebConfig
    /\ \E theme \in AVAILABLE_THEMES :
          /\ orderFiles = save_order(<<>>, StoredOrder(theme, customer))
          /\ invoiceFiles = build_invoice(<<>>, StoredOrder(theme, customer))
          /\ previewFiles = {PreviewFilename(1, theme)}
    /\ posterFiles = <<>>
    /\ THEME = "None"
    /\ req = [t \in Threads |-> IdleReq]
    /\ now = 0
    /\ uuids = 1
    /\ checkout = {}
    /\ events = {}
    /\ deliveries = [o \in Ids |-> 0]
    /\ whRenders = [o \in Ids |-> 0]
    /\ whEmails = [o \in Ids |-> 0]
    /\ emails = [o \in Ids |-> 0]
    /\ served = 0
    /\ GeoInit /\ PosterInit /\ EdgeInit /\ SideInit

SpecStored == InitStored /\ [][Next]_vars

(* one run of the script create_map_poster.py *)
InitCli ==
    /\ WebIdle /\ GeoInit /\ PosterInit /\ EdgeInit
    /\ form = NoForm /\ lookup = "none" /\ page = NoPage
    /\ downloaded = NoDownload
    /\ argv \in Argvs
    /\ cliPc = "start"
    /\ cliFigsize = NoFigsize
    /\ cliOutput = FALSE
SpecCli == InitCli /\ [][NextCli]_vars

(* /download over the directories a run of the server left behind: each
   order created so far is unpaid, or paid with its final poster rendered; a
   poster file may since have been removed from the posters directory *)
DiskChoices ==
    [theme : AVAILABLE_THEMES, paid : BOOLEAN, time : Times, kept : BOOLEAN]

DiskOrder(id, c) ==
    LET order == Order(id, "Paris", c.theme, "none") IN
    IF c.paid
    THEN [order EXCEPT !.paid = TRUE,
                       !.poster_filename = PosterFilename(order, c.time)]
    ELSE order

\* the file names download is asked for: every invoice, every poster on disk
\* and every poster an order names
DownloadAsks ==
    DownloadNames \cup
    ({orderFiles[o].poster_filename : o \in DOMAIN orderFiles} \ {NoName})

InitDisk ==
    /\ workers = 1
    /\ stripeReady = FALSE
    /\ customer = "none"
    /\ uuids \in 0..MaxOrders
    /\ \E c \in [1..uuids -> DiskChoices] :
          LET written == {o \in 1..uuids : c[o].paid /\ c[o].kept} IN
          /\ orderFiles = [o \in 1..uuids |-> DiskOrder(o, c[o])]
          /\ invoiceFiles =
                [n \in {InvoiceFilename(o) : o \in 1..uuids} |->
                    build_invoice(<<>>, DiskOrder(n[1], c[n[1]]))[n]]
          /\ posterFiles =
                [n \in {DiskOrder(o, c[o]).poster_filename : o \in written} |->
                    CHOOSE o \in written :
                        /\ DiskOrder(o, c[o]).poster_filename = n
                        /\ \A p \in written :
                              DiskOrder(p, c[p]).poster_filename = n => p <= o]
          /\ previewFiles = {PreviewFilename(o, c[o].theme) : o \in 1..uuids}
    /\ THEME = "None"
    /\ req = [t \in Threads |-> IdleReq]
    /\ now = 0
    /\ checkout = {}
    /\ events = {}
    /\ deliveries = [o \in Ids |-> 0]
    /\ whRenders = [o \in Ids |-> 0]
    /\ whEmails = [o \in Ids |-> 0]
    /\ emails = [o \in Ids |-> 0]
    /\ served = 0
    /\ GeoInit /\ PosterInit /\ EdgeInit /\ SideInit

NextDownload ==
    \E t \in Threads, o \in Ids, f \in DownloadAsks : download_send(t, o, f)

SpecDownload == InitDisk /\ [][NextDownload]_vars

(* /create answering one form, submitted any number of times *)
InitForm ==
    /\ workers = Cardinality(Threads)
    /\ stripeReady = FALSE
    /\ WebInit /\ GeoInit /\ PosterInit /\ EdgeInit
    /\ argv = NoArgv /\ cliPc = "off" /\ cliFigsize = NoFigsize
    /\ cliOutput = FALSE
    /\ form \in Forms
    /\ customer = form_email(form)
    /\ lookup = "none"
    /\ page = NoPage
    /\ downloaded = NoDownload
SpecForm == InitForm /\ [][NextForm]_vars

(* get_coordinates called again and again by one thread *)
InitGeo == WebIdle /\ GeoInit /\ PosterInit /\ EdgeInit /\ SideInit
SpecGeo == InitGeo /\ [][NextGeo]_vars

(* one create_poster call after another, with its three worker threads *)
SpecPoster == InitGeo /\ [][NextPoster]_vars

(* get_edge_colors_and_widths_by_type applied to a graph under a theme *)
InitEdges ==
    /\ workers = 1 /\ stripeReady = FALSE /\ customer = "none"
    /\ orderFiles = <<>> /\ invoiceFiles = <<>> /\ posterFiles = <<>>
    /\ previewFiles = {}
    /\ THEME \in {load_theme(n) : n \in FormThemes}
    /\ req = [t \in Threads |-> IdleReq]
    /\ now = 0 /\ uuids = 0 /\ checkout = {} /\ events = {}
    /\ deliveries = [o \in Ids |-> 0]
    /\ whRenders = [o \in Ids |-> 0]
    /\ whEmails = [o \in Ids |-> 0]
    /\ emails = [o \in Ids |-> 0]
    /\ served = 0
    /\ GeoInit /\ PosterInit /\ SideInit
    /\ edges \in Graphs
    /\ edgeStyle = <<>>
SpecEdges == InitEdges /\ [][edge_call]_vars

(* ------------------------------- claims -------------------------------- *)
Active(t) == req[t].pc # "idle"
Downloadable(o) ==
    /\ order_exists(o)
    /\ download_code(o, orderFiles[o].poster_filename) = 200

\* C1: with Stripe enabled, an order is persisted as paid, and its final
\* poster can be downloaded, only after the webhook has accepted a signed
\* checkout.session.completed event for that order.
C1_PaidOnlyAfterWebhook ==
    stripeReady =>
        \A o \in DOMAIN orderFiles :
            (orderFiles[o].paid \/ Downloadable(o)) => deliveries[o] > 0

\* C2: the invoice of an order is written once, by /create together with the
\* order, with the theme chosen at creation, and no later step of any handler
\* writes, changes or removes it.
C2_InvoiceWrittenOnce ==
    [][/\ \A n \in DOMAIN invoiceFiles :
            n \in DOMAIN invoiceFiles' /\ invoiceFiles'[n] = invoiceFiles[n]
       /\ \A n \in DOMAIN invoiceFiles' \ DOMAIN invoiceFiles :
            \E t \in Threads :
               /\ req[t].op = "create" /\ req'[t].pc = "idle"
               /\ n = InvoiceFilename(req[t].sid)
               /\ req[t].sid \in DOMAIN orderFiles' \ DOMAIN orderFiles
               /\ invoiceFiles'[n].theme = orderFiles'[req[t].sid].theme
       /\ \A o \in DOMAIN orderFiles' :
            orderFiles'[o].invoice_filename \in DOMAIN invoiceFiles']_vars

\* C2 witness: a purchase has changed the theme of an order and the invoice
\* still carries the theme of its creation.
C2_Witness ==
    \E o \in DOMAIN orderFiles :
        /\ InvoiceFilename(o) \in DOMAIN invoiceFiles
        /\ invoiceFiles[InvoiceFilename(o)].theme # orderFiles[o].theme

OrderFields == {"paid", "poster_filename", "theme"}

\* thread t saves order o in this step
Saves(t, o) ==
    /\ Active(t) /\ req[t].sid = o
    /\ req'[t].pc = "idle"
    /\ orderFiles' # orderFiles

\* C3: once an order is persisted as paid it is never persisted unpaid, and
\* no save overwrites a field that another handler's save changed after the
\* saving handler loaded the order.
C3_NoLostUpdate ==
    [][\A o \in DOMAIN orderFiles :
          /\ orderFiles[o].paid => orderFiles'[o].paid
          /\ \A t \in Threads : Saves(t, o) =>
                \A f \in OrderFields :
                    orderFiles[o][f] # req[t].snap[f] =>
                        orderFiles'[o][f] = orderFiles[o][f]]_vars

\* C4: whatever the interleaving of the deliveries, the webhook renders the
\* final poster of an order at most once and sends its email at most once.
C4_WebhookProcessesOnce ==
    \A o \in Ids : whRenders[o] <= 1 /\ whEmails[o] <= 1

\* C5: after a completed delivery for an order, with requests handled one at
\* a time, a further delivery does not process the order: the order is paid,
\* no webhook handler gets past the paid check for it, the answer is 200
\* success, and the webhook has rendered and mailed at most once.
C5_ReplayIdempotent ==
    \A o \in Ids : deliveries[o] > 0 =>
        /\ order_exists(o)
        /\ ~webhook_must_process(orderFiles[o])
        /\ stripe_webhook_answer("completed", o) = <<200, "success">>
        /\ \A t \in Threads : ~(req[t].op = "stripe_webhook" /\ req[t].sid = o)
        /\ whRenders[o] <= 1
        /\ whEmails[o] <= 1
        /\ orderFiles[o].poster_filename \in DOMAIN posterFiles

\* C5 witness: a second delivery for an order has been answered and the
\* webhook has rendered its poster once.
C5_Witness ==
    \E o \in Ids : deliveries[o] = 2 /\ whRenders[o] = 1 /\ whEmails[o] = 1

\* C6: every order document is stored under its own session_id, only
\* identifiers handed out by /create have a document, a document's
\* session_id never changes, and a step of a handler writes no document but
\* the one of the order it was invoked for.
C6_OneDocumentPerOrder ==
    [][/\ \A k \in DOMAIN orderFiles' :
            /\ orderFiles'[k].session_id = k
            /\ k \in 1..uuids
       /\ \A k \in DOMAIN orderFiles :
            k \in DOMAIN orderFiles' /\
            orderFiles'[k].session_id = orderFiles[k].session_id
       /\ \A k \in DOMAIN orderFiles' :
            (k \notin DOMAIN orderFiles \/ orderFiles'[k] # orderFiles[k]) =>
                \E t \in Threads : Saves(t, k)]_vars

\* C6 witness: two orders are stored and one of them has been saved again
\* by a later handler.
C6_Witness ==
    /\ DOMAIN orderFiles = {1, 2}
    /\ \E o \in {1, 2} : orderFiles[o].paid \/ orderFiles[o].theme = "bogus"

\* C7: every colour a create_poster call reads comes from the theme its own
\* handler loaded: the background read first and the colours read later.
C7_OwnThemeColours ==
    [][\A t \in Threads :
          /\ (req[t].pc = "render1" /\ req'[t].pc = "render2") =>
                req'[t].bg = ThemeColour(load_theme(req[t].want), "bg")
          /\ (req[t].pc = "render2" /\ req'[t].pc = "rendered") =>
                /\ req[t].bg = ThemeColour(load_theme(req[t].want), "bg")
                /\ ThemeColour(THEME, "text") =
                      ThemeColour(load_theme(req[t].want), "text")]_vars

\* C8: the geocode cache never loses or changes an entry; a successful
\* lookup stores what it returns under lower(city) + ', ' + lower(country);
\* a call whose key is cached, whatever the letter case of its arguments,
\* returns the cached (lat, lon) without calling the service; a lookup that
\* finds no location adds no entry.
C8_CacheKeepsEntries ==
    [][LET call == lastCall'
           key == Lower(call.city) \o <<",", " ">> \o Lower(call.country)
       IN /\ \A k \in DOMAIN geocode_cache :
                /\ k \in DOMAIN geocode_cache'
                /\ geocode_cache'[k] = geocode_cache[k]
          /\ DOMAIN geocode_cache' \ DOMAIN geocode_cache \subseteq {key}
          /\ key \in DOMAIN geocode_cache =>
                /\ call.cached
                /\ call.result = <<geocode_cache[key][1], geocode_cache[key][2]>>
                /\ geoCalls' = geoCalls
          /\ key \notin DOMAIN geocode_cache =>
                /\ ~call.cached
                /\ geoCalls' = geoCalls + 1
                /\ IF call.result \in {<<"ValueError">>, <<"GeocoderError">>}
                   THEN geocode_cache' = geocode_cache
                   ELSE /\ key \in DOMAIN geocode_cache'
                        /\ call.result = <<geocode_cache'[key][1],
                                           geocode_cache'[key][2]>>]_vars

\* C8 witness: two cities are cached and a call spelling a city with a
\* capital letter has been answered from the cache.
C8_Witness ==
    /\ Cardinality(DOMAIN geocode_cache) = 2
    /\ geoCalls = 2
    /\ lastCall.cached
    /\ lastCall.city # Lower(lastCall.city)
    /\ lastCall.result = <<geocode_cache[cache_key(lastCall.city, lastCall.country)][1],
                           geocode_cache[cache_key(lastCall.city, lastCall.country)][2]>>

\* C9: in create_poster the three fetches are all submitted before a result
\* is awaited; the plot starts only when all three have finished, in whatever
\* order; each result is bound to its own layer; a water or parks fetch that
\* failed gives None and is not drawn; a street-network fetch that failed
\* ends the call with an exception and no output file.
C9_FanOutJoin ==
    /\ cp \in {"await_streets", "await_water", "await_parks"} =>
          \A l \in LayerSet : futures[l] # "none"
    /\ cp \in {"plot", "save", "returned"} =>
          /\ \A l \in LayerSet : futures[l] = "done" /\ layers[l] = fetched[l]
          /\ layers["streets"] = <<"graph", "streets">>
          /\ \A l \in {"water", "parks"} :
                layers[l] \in {<<"None", "">>, <<"empty", l>>, <<"features", l>>}
    /\ cp \in {"save", "returned"} =>
          /\ drawn[Len(drawn)] = <<"graph", "streets">>
          /\ \A l \in {"water", "parks"} :
                /\ fetched[l] = <<"None", "">> =>
                      \A i \in 1..Len(drawn) : drawn[i][2] # l
                /\ fetched[l] = <<"features", l>> =>
                      \E i \in 1..Len(drawn) : drawn[i] = <<"features", l>>
    /\ outputFile => cp = "returned"
    /\ fetched["streets"] = <<"raise", "">> =>
          /\ cp \notin {"await_water", "await_parks", "shutdown",
                         "plot", "save", "returned"}
          /\ drawn = <<>>
          /\ ~outputFile
    /\ cp \in {"shutdown_raise", "raised"} => fetched["streets"] = <<"raise", "">>
    /\ cp = "raised" => \A l \in LayerSet : futures[l] = "done"

\* C9 witness: the fetches finished in the reverse of the order they were
\* submitted in, the water fetch failed, and the poster was saved with the
\* parks and the streets drawn.
C9_Witness ==
    /\ cp = "returned"
    /\ outputFile
    /\ finishOrder = <<"parks", "water", "streets">>
    /\ layers["water"] = <<"None", "">>
    /\ drawn = << <<"features", "parks">>, <<"graph", "streets">> >>

\* C10: get_edge_colors_and_widths_by_type gives one colour and one width
\* per edge, in edge order, following the table: motorway -> road_motorway
\* 1.2, trunk and primary -> road_primary 1.0, secondary -> road_secondary
\* 0.8, tertiary -> road_tertiary 0.6, residential, living_street and
\* unclassified -> road_residential 0.4, anything else -> road_default 0.4
\* (widths in tenths); a list counts by its first element, a missing highway
\* or an empty list as unclassified.
C10_EdgeBuckets ==
    edgeStyle # <<>> =>
        LET edge_colors == edgeStyle[1][1]
            edge_widths == edgeStyle[1][2]
            table == << <<{"motorway", "motorway_link"}, "road_motorway", 12>>,
                        <<{"trunk", "trunk_link", "primary", "primary_link"},
                          "road_primary", 10>>,
                        <<{"secondary", "secondary_link"}, "road_secondary", 8>>,
                        <<{"tertiary", "tertiary_link"}, "road_tertiary", 6>>,
                        <<{"residential", "living_street", "unclassified"},
                          "road_residential", 4>> >>
            type(data) ==
                CASE data.kind = "missing" -> "unclassified"
                  [] data.kind = "list" /\ data.v = <<>> -> "unclassified"
                  [] data.kind = "list" /\ data.v # <<>> -> Head(data.v)
                  [] OTHER -> data.v
            bucket(h) ==
                IF \E i \in 1..Len(table) : h \in table[i][1]
                THEN LET i == CHOOSE j \in 1..Len(table) : h \in table[j][1]
                     IN <<table[i][2], table[i][3]>>
                ELSE <<"road_default", 4>>
        IN /\ Len(edge_colors) = Len(edges)
           /\ Len(edge_widths) = Len(edges)
           /\ \A i \in 1..Len(edges) :
                 /\ edge_colors[i] = <<THEME, bucket(type(edges[i]))[1]>>
                 /\ edge_widths[i] = bucket(type(edges[i]))[2]

\* C10 witness: a graph whose first edge has a list starting with
\* residential and whose second edge has no highway has been styled.
C10_Witness ==
    /\ edgeStyle # <<>>
    /\ edges = <<List(<<"residential", "motorway">>), Missing>>
    /\ edgeStyle[1][2] = <<4, 4>>

\* C11: final poster filenames are unique per order: a final render never
\* writes over the poster file of another order, two orders never carry the
\* same poster_filename, and the poster that /download serves for an order
\* is the one rendered for that order.
C11_FinalFilenamesUnique ==
    [][/\ \A f \in DOMAIN posterFiles : posterFiles'[f] = posterFiles[f]
       /\ \A o1, o2 \in DOMAIN orderFiles' :
             (o1 # o2 /\ orderFiles'[o1].poster_filename # NoName) =>
                orderFiles'[o1].poster_filename # orderFiles'[o2].poster_filename
       /\ \A o \in DOMAIN orderFiles' :
             (orderFiles'[o].paid
                /\ orderFiles'[o].poster_filename \in DOMAIN posterFiles') =>
                posterFiles'[orderFiles'[o].poster_filename] = o]_vars

\* C12: any two successive requests that get_coordinates sends to the
\* geocoding service are at least one second apart.
C12_RequestsOneSecondApart ==
    [][(geoCalls' > geoCalls /\ geoCalls > 0) => sentAt' >= sentAt + 1]_vars

\* C13: for --size small, medium, large and xl, and medium when the option
\* is left out, the figsize that the script passes to create_poster is the
\* POSTER_SIZES inches pair of that size: (11, 17), (18, 24), (24, 36),
\* (36, 48).
C13_SizeSelectsInches ==
    cliFigsize # NoFigsize =>
        /\ cliFigsize.kind = "inches"
        /\ cliFigsize.inches =
              (LET size == IF argv.size = Absent THEN "medium" ELSE argv.size
               IN CASE size = "small" -> <<11, 17>>
                    [] size = "medium" -> <<18, 24>>
                    [] size = "large" -> <<24, 36>>
                    [] size = "xl" -> <<36, 48>>)

\* every input of the submitted form is valid
C14_Valid ==
    LET f == form_get(form) IN
    /\ int(f.distance) \in 3000..40000
    /\ int(f.dpi) \in {150, 240, 300}
    /\ form_email(f) = "none" \/ email_matches(form_email(f))
    /\ strip(f.city) # "" /\ strip(f.country) # ""
    /\ f.size \in SIZE_OPTIONS
    /\ f.theme \in AVAILABLE_THEMES

\* the error messages of the checks that the submitted form fails
C14_FailedChecks ==
    LET f == form_get(form) IN
    {m \in {"Invalid distance value.",
            "Distance must be between 3,000 and 40,000 meters.",
            "Invalid DPI value.", "DPI must be 150, 240, or 300.",
            "Invalid email address format.", "City and country are required.",
            "Unsupported size selection.", "Invalid theme selected."} :
        \/ m = "Invalid distance value." /\ int(f.distance) = ValueError
        \/ /\ m = "Distance must be between 3,000 and 40,000 meters."
           /\ int(f.distance) # ValueError
           /\ int(f.distance) \notin 3000..40000
        \/ m = "Invalid DPI value." /\ int(f.dpi) = ValueError
        \/ /\ m = "DPI must be 150, 240, or 300."
           /\ int(f.dpi) # ValueError
           /\ int(f.dpi) \notin {150, 240, 300}
        \/ /\ m = "Invalid email address format."
           /\ form_email(f) # "none" /\ ~email_matches(form_email(f))
        \/ /\ m = "City and country are required."
           /\ strip(f.city) = "" \/ strip(f.country) = ""
        \/ m = "Unsupported size selection." /\ f.size \notin SIZE_OPTIONS
        \/ m = "Invalid theme selected." /\ f.theme \notin AVAILABLE_THEMES}

\* C14: POST /create writes an order, an invoice or a preview only for a form
\* whose every input is valid (distance an integer in 3000..40000, dpi one of
\* 150, 240, 300, email absent or matching the pattern, city and country not
\* empty after trimming, size a key of SIZE_OPTIONS, theme available); a form
\* that fails a check is answered by the index page with the message of a
\* check it fails and writes nothing; an order that is created starts unpaid,
\* with no poster filename, with invoice_filename = session_id + '.json' and
\* with the coordinates the geocoder gave.
C14_CreatePersistsOnlyValid ==
    [][/\ ~C14_Valid =>
            /\ orderFiles' = orderFiles /\ invoiceFiles' = invoiceFiles
            /\ previewFiles' = previewFiles /\ posterFiles' = posterFiles
            /\ page'[1] = "index.html"
            /\ page'[2] \in C14_FailedChecks
       /\ \A o \in DOMAIN orderFiles' \ DOMAIN orderFiles :
            /\ C14_Valid
            /\ orderFiles'[o].session_id = o
            /\ orderFiles'[o].paid = FALSE
            /\ orderFiles'[o].poster_filename = NoName
            /\ orderFiles'[o].invoice_filename = InvoiceFilename(o)
            /\ orderFiles'[o].invoice_filename \in DOMAIN invoiceFiles'
            /\ orderFiles'[o].coordinates = GeoPoint
            /\ orderFiles'[o].theme = form_get(form).theme
            /\ orderFiles'[o].city = strip(form.city)
            /\ orderFiles'[o].email = form_email(form)
            /\ \E name \in previewFiles' : name = PreviewFilename(o, orderFiles'[o].theme)]_vars

\* a form whose distance is one metre too long was answered with the range
\* message and nothing was written
C14_Witness ==
    /\ int(form.distance) = 40001
    /\ page = <<"index.html", "Distance must be between 3,000 and 40,000 meters.">>
    /\ orderFiles = <<>> /\ previewFiles = {}

\* C15: when the geocoder finds no location for the submitted city and
\* country, POST /create answers with the index page carrying 'We could not
\* find that city. Please double-check the spelling.' and writes no order,
\* invoice or preview.
C15_NotFoundShowsError ==
    [][lookup' = "not_found" /\ lookup # "not_found" =>
            /\ page' = <<"index.html",
                         "We could not find that city. Please double-check the spelling.">>
            /\ orderFiles' = orderFiles /\ invoiceFiles' = invoiceFiles
            /\ previewFiles' = previewFiles]_vars

\* C16: in every reachable state the theme of every persisted order is a
\* member of AVAILABLE_THEMES; no operation, POST /purchase/<session_id> with a
\* theme field included, stores another theme.
C16_PersistedThemeAvailable ==
    \A o \in DOMAIN orderFiles : orderFiles[o].theme \in AVAILABLE_THEMES

\* C18: for every order and every sequence of requests, the poster-and-invoice
\* email of the order is sent at most once.
C18_EmailAtMostOnce ==
    \A o \in Ids : emails[o] <= 1

\* C17: GET /download is gated on payment and on the order's own files: an
\* unknown order gives 404; an unpaid order gives 403 and no file, whether the
\* poster or the invoice is asked for; for a paid order a file is sent only
\* when the filename asked is the order's poster_filename or invoice_filename
\* and that file exists, and every other filename gives 404.
C17_DownloadGated ==
    downloaded # NoDownload =>
        LET o == downloaded.session_id
            f == downloaded.filename
            own == /\ o \in DOMAIN orderFiles
                   /\ \/ f = orderFiles[o].poster_filename /\ f \in DOMAIN posterFiles
                      \/ f = orderFiles[o].invoice_filename /\ f \in DOMAIN invoiceFiles
        IN
        /\ o \notin DOMAIN orderFiles =>
                downloaded.code = 404 /\ downloaded.file = NoFile
        /\ o \in DOMAIN orderFiles /\ ~orderFiles[o].paid =>
                downloaded.code = 403 /\ downloaded.file = NoFile
        /\ o \in DOMAIN orderFiles /\ orderFiles[o].paid =>
                /\ own => /\ downloaded.code = 200
                          /\ downloaded.file[2] = f
                          /\ downloaded.file[1] =
                                IF f = orderFiles[o].poster_filename
                                THEN "posters" ELSE "invoices"
                /\ ~own => downloaded.code = 404 /\ downloaded.file = NoFile

\* the poster of a paid order was sent, next to an order that is not paid
C17_Witness ==
    /\ downloaded.code = 200
    /\ downloaded.file[1] = "posters"
    /\ \E o \in DOMAIN orderFiles : ~orderFiles[o].paid

====
